---- MODULE Spec2Model ----
(***************************************************************************)
(* A model of lib/logitech/unifying_receiver/receiver.py: the Receiver     *)
(* registry (transport handle + DeviceNumber -> PairedDevice map), the     *)
(* lazily resolved PairedDevice fields, and the Receiver.open() scan.      *)
(*                                                                         *)
(* Three specifications share the variables:                               *)
(*   Spec      the registry operations on one constructed Receiver         *)
(*   SpecOpen  the classmethod Receiver.open() over a list of paths        *)
(*   SpecDev   the property reads of one PairedDevice and its receiver     *)
(*                                                                         *)
(* Python values are encoded so that every value of one variable has one   *)
(* TLA+ type: an optional value is a sequence of length 0 (None) or 1.     *)
(***************************************************************************)
EXTENDS Integers, Sequences, FiniteSets, TLC

VARIABLES
    handle,      \* Receiver.handle: None or Some(transport handle)
    devices,     \* Receiver._devices: dict number -> None | PairedDevice
    closeCalls,  \* how often _base.close() was invoked on the transport
    it,          \* the generator of Receiver.__iter__: next number to visit, 0 = none
    last,        \* the last call: [op, key, ret, sent, created]
    dev,         \* SpecDev: the PairedDevice whose properties are read
    paths,       \* SpecOpen: what _base.open_path() does for each discovered path
    idx,         \* SpecOpen: number of paths tried so far
    exception,   \* SpecOpen: the local variable `exception` (index of its path, 0 = None)
    opened       \* SpecOpen: result of open(): [kind, path]

vars == <<handle, devices, closeCalls, it, last, dev, paths, idx, exception, opened>>

regVars == <<handle, devices, closeCalls, it>>
openVars == <<paths, idx, exception, opened>>

(***************************************************************************)
(* Bounds of the model.                                                    *)
(***************************************************************************)
MaxCount == 1       \* largest device count byte the receiver reports
MaxPaths == 3       \* receiver paths discovered by _base.receivers()

(***************************************************************************)
(* Program constants.                                                      *)
(***************************************************************************)
MAX_PAIRED_DEVICES == 6
RECEIVER_NUMBER == \HFF
REQ_NOTIFICATION_FLAGS == \H8000
REQ_DEVICE_EVENTS == \H8002
REQ_COUNT == \H8102
REQ_LOCK == \H80B2
REQ_PAIR_INFO == \H83B5
HandleValue == 3    \* the transport handle returned by _base.open_path (truthy)

(***************************************************************************)
(* Python values.                                                          *)
(***************************************************************************)
None == <<>>
Some(x) == <<x>>
Value(o) == o[1]

\* Truthiness of an optional bytes (or tuple) value and of an optional str:
\* None and the empty value are falsy.
Truthy(o) == o # None /\ Value(o) # <<>>
TruthyStr(o) == o # None /\ Value(o) # ""

\* bytes[i:j] with 0 <= i <= j (Python slicing never fails on short input)
Slice(b, i, j) == SubSeq(b, i + 1, IF j < Len(b) THEN j ELSE Len(b))

\* Return values and raised exceptions of one call.
RNone == [kind |-> "None", val |-> <<>>]
RBool(b) == [kind |-> "bool", val |-> <<IF b THEN 1 ELSE 0>>]
RInt(i) == [kind |-> "int", val |-> <<i>>]
RBytes(b) == [kind |-> "bytes", val |-> b]
RStr(s) == [kind |-> "str", val |-> <<s>>]
RDev(d) == [kind |-> "PairedDevice", val |-> <<d.number>>]
Raise(e) == [kind |-> e, val |-> <<>>]
ROpt(o) == IF o = None THEN RNone ELSE RBytes(Value(o))

\* Keys handed to the sequence interface: an int, a float with an integral
\* value (1.0 == 1 and hash(1.0) == hash(1)), or a str.
IntKey(n) == [type |-> "int", val |-> n]
FloatKey(n) == [type |-> "float", val |-> n]
StrKey == [type |-> "str", val |-> 0]
NoKey == [type |-> "none", val |-> 0]
Numbers == 0 .. (MAX_PAIRED_DEVICES + 1)
DeviceNumbers == 1 .. MAX_PAIRED_DEVICES
Keys == {IntKey(n) : n \in Numbers} \cup {FloatKey(1), StrKey}
ValidKey(key) == key.type = "int" /\ key.val \in DeviceNumbers

\* dict.get(key), dict[key] = v, del dict[key]
DictGet(d, k) == IF k \in DOMAIN d THEN d[k] ELSE None
DictSet(d, k, v) == [x \in (DOMAIN d) \cup {k} |-> IF x = k THEN v ELSE d[x]]
DictDel(d, k) == [x \in (DOMAIN d) \ {k} |-> d[x]]
\* dict.get(key) for a key of any type: keys compare by value, a str equals no int
DictGetKey(d, key) == IF key.type \in {"int", "float"} THEN DictGet(d, key.val) ELSE None

Live(d, n) == DictGet(d, n) # None
LiveSet(d) == {n \in DOMAIN d : d[n] # None}

(***************************************************************************)
(* The transport port (_base) and the tables of the protocol layers.       *)
(***************************************************************************)
\* One call handed to a collaborator, as logged in last.sent: the function
\* called, the handle and device number it was given, the request and
\* whether the collaborator answered (a reply, a value) or not (None).
Req(call, h, devnumber, request_id, params, reply) ==
    [call |-> call, handle |-> h, devnumber |-> devnumber, request_id |-> request_id,
     params |-> params, answered |-> reply # None]

HexDigits == <<"0", "1", "2", "3", "4", "5", "6", "7", "8", "9", "A", "B", "C", "D", "E", "F">>
HexByte(b) == HexDigits[(b \div 16) + 1] \o HexDigits[(b % 16) + 1]
RECURSIVE strhex(_)
strhex(b) == IF b = <<>> THEN "" ELSE HexByte(Head(b)) \o strhex(Tail(b))

\* _hidpp10.DEVICE_KIND: kind nibble -> category name
DEVICE_KIND(nibble) ==
    CASE nibble = 1 -> Some("keyboard")
      [] nibble = 2 -> Some("mouse")
      [] nibble = 3 -> Some("numpad")
      [] OTHER -> None

\* Pairing-info reply, variant A: the wireless PID in bytes 3..4, the kind in
\* the low nibble of byte 7.
PairInfoA(index, w1, w2, kindbyte) == <<index, 0, 0, w1, w2, 0, 0, kindbyte>>
KindBytes == {\H42}

\* What the transport may answer to a request: None (no reply) or a payload.
TransportReplies(request_id, params) ==
    {None} \cup
    IF request_id = REQ_COUNT THEN {Some(<<2, c>>) : c \in 0 .. MaxCount}
    ELSE IF request_id = REQ_PAIR_INFO /\ params[1] \in \H20 .. \H2F
         THEN {Some(PairInfoA(params[1], \H12, \H34, k)) : k \in KindBytes}
    ELSE {Some(<<0>>)}

\* _hidpp10.POWER_SWITCH_LOCATION: nibble -> location name
POWER_SWITCH_LOCATION(nibble) ==
    CASE nibble = 1 -> Some("base")
      [] nibble = 2 -> Some("top case")
      [] OTHER -> None

\* Pairing-info reply, variant B: the power switch location in the low
\* nibble of byte 9.
PairInfoB(index, psbyte) == <<index, 0, 0, 0, 0, 0, 0, 0, 0, psbyte>>
PowerSwitchBytes == {\H21}

\* Pairing-info reply, variant C: the codename from byte 2 on, padded with
\* zero bytes.  "M510" is a codename of the device table, "X9" is not.
PairInfoC(index, chars) == <<index, Len(chars)>> \o chars \o <<0, 0>>
CodenameBytes == {<<77, 53, 49, 48>>, <<88, 57>>}

\* bytes.rstrip(b'\x00') and bytes.decode('utf-8') (for the characters used)
RECURSIVE rstrip0(_)
rstrip0(b) == IF b # <<>> /\ b[Len(b)] = 0 THEN rstrip0(SubSeq(b, 1, Len(b) - 1)) ELSE b
Chr(c) ==
    CASE c = 48 -> "0" [] c = 49 -> "1" [] c = 53 -> "5" [] c = 57 -> "9"
      [] c = 77 -> "M" [] c = 88 -> "X" [] OTHER -> "?"
RECURSIVE decode(_)
decode(b) == IF b = <<>> THEN "" ELSE Chr(Head(b)) \o decode(Tail(b))

\* What the transport may answer to the pairing-info variants B and C.
PowerSwitchReplies(number) ==
    {None} \cup {Some(PairInfoB(\H30 + number - 1, b)) : b \in PowerSwitchBytes}
CodenameReplies(number) ==
    {None} \cup {Some(PairInfoC(\H40 + number - 1, c)) : c \in CodenameBytes}

\* _base.ping: None, or the protocol version (in tenths: 10 is 1.0).  A
\* closed handle gets no reply.
PingReplies(h) == {None} \cup IF h # None THEN {Some(10), Some(20)} ELSE {}

\* What a query of the protocol layers (_hidpp10, _hidpp20) may return: None
\* or a value.  Through a closed handle it gets no reply.
LayerReplies(h, value) == {None} \cup IF h # None THEN {Some(value)} ELSE {}

\* devices.DEVICES: codename -> (name, kind); None for a codename (or None)
\* that is not in the table.
DEVICES(cn) ==
    IF cn = Some("M510") THEN Some([name |-> "Wireless Mouse M510", kind |-> "mouse"])
    ELSE None

\* The pairing-info answers (variant A) a single device is read with: the
\* registry's, and one whose kind nibble differs from the table's kind.
DevKindBytes == KindBytes \cup {\H01}
DevPairInfoReplies(number) ==
    {None} \cup {Some(PairInfoA(\H20 + number - 1, \H12, \H34, k)) : k \in DevKindBytes}

(***************************************************************************)
(* PairedDevice                                                            *)
(***************************************************************************)
\* PairedDevice.__init__ (after its two assertions)
PairedDevice(number) ==
    [number |-> number,
     protocol_ |-> None, wpid_ |-> None, power_switch_ |-> None, codename_ |-> None,
     name_ |-> None, kind_ |-> None, serial_ |-> None, firmware_ |-> None, keys_ |-> None]

\* Mutant of request: the `if self.handle` test is dropped.
request_nocheck(h, request_id, params, reply) ==
    [reply |-> reply,
     sent |-> <<Req("_base.request", h, RECEIVER_NUMBER, request_id, params, reply)>>]

\* Receiver.request: nothing is sent on a closed handle.  `reply` is the
\* transport's answer, used only when the request is sent.
request(h, request_id, params, reply) ==
    IF h # None
    THEN [reply |-> reply,
          sent |-> <<Req("_base.request", h, RECEIVER_NUMBER, request_id, params, reply)>>]
    ELSE [reply |-> None, sent |-> <<>>]

\* Mutant of wpid: the kind nibble of the pairing info is not stored.
wpid_nokind(d, h, reply) ==
    IF d.wpid_ = None
    THEN LET q == request(h, REQ_PAIR_INFO, <<\H20 + d.number - 1>>, reply)
             d1 == IF Truthy(q.reply)
                   THEN [d EXCEPT !.wpid_ = Some(strhex(Slice(Value(q.reply), 3, 5)))]
                   ELSE d
         IN [dev |-> d1, value |-> d1.wpid_, sent |-> q.sent]
    ELSE [dev |-> d, value |-> d.wpid_, sent |-> <<>>]

\* PairedDevice.wpid
wpid(d, h, reply) ==
    IF d.wpid_ = None
    THEN LET q == request(h, REQ_PAIR_INFO, <<\H20 + d.number - 1>>, reply)
             pair_info == q.reply
             d1 == IF Truthy(pair_info)
                   THEN [d EXCEPT !.wpid_ = Some(strhex(Slice(Value(pair_info), 3, 5))),
                                  !.kind_ = IF d.kind_ = None
                                            THEN DEVICE_KIND(Slice(Value(pair_info), 7, 8)[1] % 16)
                                            ELSE d.kind_]
                   ELSE d
         IN [dev |-> d1, value |-> d1.wpid_, sent |-> q.sent]
    ELSE [dev |-> d, value |-> d.wpid_, sent |-> <<>>]

\* A call of a device-level collaborator, as logged in last.sent.
DevCall(call, h, d, reply) == Req(call, h, d.number, 0, <<>>, reply)

\* `x or default` on an optional value whose empty value is `empty`
Or(o, empty, default) == IF o = None \/ Value(o) = empty THEN default ELSE Value(o)

\* Mutant of protocol: the `is None` test is dropped, every read pings.
protocol_nocache(d, h, reply) ==
    LET d1 == [d EXCEPT !.protocol_ = reply]
    IN [dev |-> d1, value |-> Or(d1.protocol_, 0, 0),
        sent |-> <<DevCall("_base.ping", h, d, reply)>>]

\* PairedDevice.protocol: _base.ping is given receiver.handle as it is.
protocol(d, h, reply) ==
    IF d.protocol_ = None
    THEN LET d1 == [d EXCEPT !.protocol_ = reply]
         IN [dev |-> d1, value |-> Or(d1.protocol_, 0, 0),
             sent |-> <<DevCall("_base.ping", h, d, reply)>>]
    ELSE [dev |-> d, value |-> Or(d.protocol_, 0, 0), sent |-> <<>>]

\* PairedDevice.power_switch_location
power_switch_location(d, h, reply) ==
    IF d.power_switch_ = None
    THEN LET q == request(h, REQ_PAIR_INFO, <<\H30 + d.number - 1>>, reply)
             ps == q.reply
             d1 == IF Truthy(ps)
                   THEN [d EXCEPT !.power_switch_ =
                                      POWER_SWITCH_LOCATION(Slice(Value(ps), 9, 10)[1] % 16)]
                   ELSE d
         IN [dev |-> d1, value |-> d1.power_switch_, sent |-> q.sent]
    ELSE [dev |-> d, value |-> d.power_switch_, sent |-> <<>>]

\* PairedDevice.codename
codename(d, h, reply) ==
    IF d.codename_ = None
    THEN LET q == request(h, REQ_PAIR_INFO, <<\H40 + d.number - 1>>, reply)
             d1 == IF Truthy(q.reply)
                   THEN [d EXCEPT !.codename_ =
                             Some(decode(rstrip0(Slice(Value(q.reply), 2, Len(Value(q.reply))))))]
                   ELSE d
         IN [dev |-> d1, value |-> d1.codename_, sent |-> q.sent]
    ELSE [dev |-> d, value |-> d.codename_, sent |-> <<>>]

\* Mutant of firmware: the legacy query is asked whatever the version.
firmware_legacy(d, h, pingReply, reply) ==
    IF d.firmware_ = None
    THEN LET p == protocol(d, h, pingReply)
         IN IF p.value >= 10
            THEN [dev |-> [p.dev EXCEPT !.firmware_ = reply],
                  value |-> Or(reply, <<>>, <<>>),
                  sent |-> p.sent \o <<DevCall("_hidpp10.get_firmware", h, d, reply)>>]
            ELSE [dev |-> p.dev, value |-> <<>>, sent |-> p.sent]
    ELSE [dev |-> d, value |-> Or(d.firmware_, <<>>, <<>>), sent |-> <<>>]

\* PairedDevice.firmware
firmware(d, h, pingReply, reply) ==
    IF d.firmware_ = None
    THEN LET p == protocol(d, h, pingReply)
         IN IF p.value >= 20
            THEN [dev |-> [p.dev EXCEPT !.firmware_ = reply],
                  value |-> Or(reply, <<>>, <<>>),
                  sent |-> p.sent \o <<DevCall("_hidpp20.get_firmware", h, d, reply)>>]
            ELSE IF p.value >= 10
            THEN [dev |-> [p.dev EXCEPT !.firmware_ = reply],
                  value |-> Or(reply, <<>>, <<>>),
                  sent |-> p.sent \o <<DevCall("_hidpp10.get_firmware", h, d, reply)>>]
            ELSE [dev |-> p.dev, value |-> <<>>, sent |-> p.sent]
    ELSE [dev |-> d, value |-> Or(d.firmware_, <<>>, <<>>), sent |-> <<>>]

\* PairedDevice.serial
serial(d, h, reply) ==
    IF d.serial_ = None
    THEN [dev |-> [d EXCEPT !.serial_ = reply], value |-> Or(reply, "", "?"),
          sent |-> <<DevCall("_hidpp10.get_serial", h, d, reply)>>]
    ELSE [dev |-> d, value |-> Or(d.serial_, "", "?"), sent |-> <<>>]

\* PairedDevice.keys: `_hidpp20.get_keys(self) or ()` is stored
keys(d, h, reply) ==
    IF d.keys_ = None
    THEN LET d1 == [d EXCEPT !.keys_ = Some(Or(reply, <<>>, <<>>))]
         IN [dev |-> d1, value |-> Value(d1.keys_),
             sent |-> <<DevCall("_hidpp20.get_keys", h, d, reply)>>]
    ELSE [dev |-> d, value |-> Value(d.keys_), sent |-> <<>>]

\* The return expression of PairedDevice.name, `self._name or self.codename
\* or '?'`: it reads the codename property again when no name was found,
\* which asks the transport again while the codename is unresolved.
name_return(r, h, reply2) ==
    IF TruthyStr(r.dev.name_)
    THEN [dev |-> r.dev, value |-> Value(r.dev.name_), sent |-> r.sent]
    ELSE LET c2 == codename(r.dev, h, reply2)
         IN [dev |-> c2.dev, value |-> Or(c2.value, "", "?"), sent |-> r.sent \o c2.sent]

\* Mutant of name: the feature layer is asked before the device table.
name_featurefirst(d, h, reply, pingReply, nameReply, reply2) ==
    LET r == IF d.name_ = None
             THEN LET p == protocol(d, h, pingReply)
                  IN IF p.value >= 20
                     THEN [dev |-> [p.dev EXCEPT !.name_ = nameReply],
                           sent |-> p.sent \o <<DevCall("_hidpp20.get_name", h, d, nameReply)>>]
                     ELSE LET c == codename(p.dev, h, reply)
                          IN IF DEVICES(c.value) # None
                             THEN [dev |-> [c.dev EXCEPT
                                              !.name_ = Some(Value(DEVICES(c.value)).name),
                                              !.kind_ = Some(Value(DEVICES(c.value)).kind)],
                                   sent |-> p.sent \o c.sent]
                             ELSE [dev |-> c.dev, sent |-> p.sent \o c.sent]
             ELSE [dev |-> d, sent |-> <<>>]
    IN name_return(r, h, reply2)

\* PairedDevice.name
name(d, h, reply, pingReply, nameReply, reply2) ==
    LET r == IF d.name_ = None
             THEN LET c == codename(d, h, reply)
                  IN IF DEVICES(c.value) # None
                     THEN [dev |-> [c.dev EXCEPT !.name_ = Some(Value(DEVICES(c.value)).name),
                                                 !.kind_ = Some(Value(DEVICES(c.value)).kind)],
                           sent |-> c.sent]
                     ELSE LET p == protocol(c.dev, h, pingReply)
                          IN IF p.value >= 20
                             THEN [dev |-> [p.dev EXCEPT !.name_ = nameReply],
                                   sent |-> c.sent \o p.sent
                                            \o <<DevCall("_hidpp20.get_name", h, d, nameReply)>>]
                             ELSE [dev |-> p.dev, sent |-> c.sent \o p.sent]
             ELSE [dev |-> d, sent |-> <<>>]
    IN name_return(r, h, reply2)

\* The first step of PairedDevice.kind: the pairing information (variant A)
\* is asked for, and fills the kind and an unresolved wpid.
kind_pair_info(d, h, pairReply) ==
    LET q == request(h, REQ_PAIR_INFO, <<\H20 + d.number - 1>>, pairReply)
        pair_info == q.reply
    IN [dev |-> IF Truthy(pair_info)
                THEN [d EXCEPT !.kind_ = DEVICE_KIND(Slice(Value(pair_info), 7, 8)[1] % 16),
                               !.wpid_ = IF d.wpid_ = None
                                         THEN Some(strhex(Slice(Value(pair_info), 3, 5)))
                                         ELSE d.wpid_]
                ELSE d,
        sent |-> q.sent]

\* The second step of PairedDevice.kind, taken when the kind is still None:
\* the device table by codename, then the feature layer.
kind_fallback(d1, h, reply, pingReply, kindReply) ==
    LET c == codename(d1, h, reply)
    IN IF DEVICES(c.value) # None
       THEN [dev |-> [c.dev EXCEPT !.name_ = Some(Value(DEVICES(c.value)).name),
                                   !.kind_ = Some(Value(DEVICES(c.value)).kind)],
             sent |-> c.sent]
       ELSE LET p == protocol(c.dev, h, pingReply)
            IN IF p.value >= 20
               THEN [dev |-> [p.dev EXCEPT !.kind_ = kindReply],
                     sent |-> c.sent \o p.sent
                              \o <<DevCall("_hidpp20.get_kind", h, d1, kindReply)>>]
               ELSE [dev |-> p.dev, sent |-> c.sent \o p.sent]

\* Mutant of kind: the device table and the feature layer are consulted
\* whatever the pairing information gave.
kind_eager(d, h, pairReply, reply, pingReply, kindReply) ==
    IF d.kind_ = None
    THEN LET q == kind_pair_info(d, h, pairReply)
             f == kind_fallback(q.dev, h, reply, pingReply, kindReply)
         IN [dev |-> f.dev, value |-> Or(f.dev.kind_, "", "?"), sent |-> q.sent \o f.sent]
    ELSE [dev |-> d, value |-> Or(d.kind_, "", "?"), sent |-> <<>>]

\* PairedDevice.kind
kind(d, h, pairReply, reply, pingReply, kindReply) ==
    IF d.kind_ = None
    THEN LET q == kind_pair_info(d, h, pairReply)
         IN IF q.dev.kind_ = None
            THEN LET f == kind_fallback(q.dev, h, reply, pingReply, kindReply)
                 IN [dev |-> f.dev, value |-> Or(f.dev.kind_, "", "?"),
                     sent |-> q.sent \o f.sent]
            ELSE [dev |-> q.dev, value |-> Or(q.dev.kind_, "", "?"), sent |-> q.sent]
    ELSE [dev |-> d, value |-> Or(d.kind_, "", "?"), sent |-> <<>>]

\* PairedDevice.request: _base.request is given receiver.handle as it is.
device_request(d, h, request_id, params, reply) ==
    [dev |-> d, value |-> reply,
     sent |-> <<Req("_base.request", h, d.number, request_id, params, reply)>>]

\* PairedDevice.ping: _base.ping is given receiver.handle as it is.
device_ping(d, h, reply) ==
    [dev |-> d, value |-> reply # None, sent |-> <<DevCall("_base.ping", h, d, reply)>>]

(***************************************************************************)
(* Receiver                                                                *)
(*                                                                         *)
(* `last` records the call just made: its name, its key argument, what it  *)
(* returned or raised, the requests it handed to the transport, and the    *)
(* number of PairedDevice objects it constructed.  An object of the map is *)
(* the same object for as long as no call stores a newly constructed one   *)
(* in its slot.                                                            *)
(***************************************************************************)
Called(op, key, ret, o) ==
    [op |-> op, key |-> key, ret |-> ret, sent |-> o.sent, created |-> o.created]
Nothing == [sent |-> <<>>, created |-> 0]
Sent(q) == [sent |-> q.sent, created |-> 0]

\* Receiver.__init__
InitReceiver ==
    /\ handle = Some(HandleValue)
    /\ devices = <<>>
    /\ closeCalls = 0
    /\ it = 0
    /\ last = Called("__init__", NoKey, RNone, Nothing)

\* Mutant of Close: self.handle is not reset to None.
Close_keephandle ==
    /\ handle' = handle
    /\ devices' = <<>>
    /\ IF handle # None
       THEN /\ closeCalls' = closeCalls + 1
            /\ \E ok \in BOOLEAN : last' = Called("close", NoKey, RBool(ok), Nothing)
       ELSE /\ closeCalls' = closeCalls
            /\ last' = Called("close", NoKey, RNone, Nothing)
    /\ UNCHANGED <<it, dev, openVars>>

\* Mutant of Close: self._devices is not cleared.
Close_keepdevices ==
    /\ handle' = None
    /\ devices' = devices
    /\ IF handle # None
       THEN /\ closeCalls' = closeCalls + 1
            /\ \E ok \in BOOLEAN : last' = Called("close", NoKey, RBool(ok), Nothing)
       ELSE /\ closeCalls' = closeCalls
            /\ last' = Called("close", NoKey, RNone, Nothing)
    /\ UNCHANGED <<it, dev, openVars>>

\* Receiver.close: returns (handle and _base.close(handle)); the transport
\* decides what _base.close returns.
Close ==
    /\ handle' = None
    /\ devices' = <<>>
    /\ IF handle # None
       THEN /\ closeCalls' = closeCalls + 1
            /\ \E ok \in BOOLEAN : last' = Called("close", NoKey, RBool(ok), Nothing)
       ELSE /\ closeCalls' = closeCalls
            /\ last' = Called("close", NoKey, RNone, Nothing)
    /\ UNCHANGED <<it, dev, openVars>>

\* Receiver.request called by the user
RequestIds == {REQ_NOTIFICATION_FLAGS, REQ_COUNT}
Request ==
    \E request_id \in RequestIds : \E reply \in TransportReplies(request_id, <<>>) :
        LET q == request(handle, request_id, <<>>, reply)
        IN /\ last' = Called("request", NoKey, ROpt(q.reply), Sent(q))
           /\ UNCHANGED <<regVars, dev, openVars>>

\* Receiver.enable_notifications
EnableNotifications ==
    \E enable \in BOOLEAN :
        LET params == IF enable THEN <<\HFF, \HFF>> ELSE <<>>
        IN \E reply \in TransportReplies(REQ_NOTIFICATION_FLAGS, params) :
            LET q == request(handle, REQ_NOTIFICATION_FLAGS, params, reply)
            IN /\ last' = IF handle = None
                          THEN Called("enable_notifications", NoKey, RBool(FALSE), Nothing)
                          ELSE Called("enable_notifications", NoKey, ROpt(q.reply), Sent(q))
               /\ UNCHANGED <<regVars, dev, openVars>>

\* Receiver.notify_devices
NotifyDevices ==
    \E reply \in TransportReplies(REQ_DEVICE_EVENTS, <<2>>) :
        LET q == request(handle, REQ_DEVICE_EVENTS, <<2>>, reply)
        IN /\ last' = IF handle # None
                      THEN Called("notify_devices", NoKey, RNone, Sent(q))
                      ELSE Called("notify_devices", NoKey, RNone, Nothing)
           /\ UNCHANGED <<regVars, dev, openVars>>

\* Receiver.set_lock
LockDevices == {0, 1}
LockTimeouts == {0}
SetLock ==
    \E lock_closed \in BOOLEAN, device \in LockDevices, timeout \in LockTimeouts :
        LET lock == IF lock_closed THEN 2 ELSE 1
            params == <<lock, device, timeout>>
        IN \E reply \in TransportReplies(REQ_LOCK, params) :
            LET q == request(handle, REQ_LOCK, params, reply)
            IN /\ last' = IF handle # None
                          THEN Called("set_lock", NoKey,
                                      IF Truthy(q.reply) THEN RBool(TRUE) ELSE RNone, Sent(q))
                          ELSE Called("set_lock", NoKey, RNone, Nothing)
               /\ UNCHANGED <<regVars, dev, openVars>>

\* Receiver.count
Count ==
    \E reply \in TransportReplies(REQ_COUNT, <<>>) :
        LET q == request(handle, REQ_COUNT, <<>>, reply)
            count == q.reply
        IN /\ last' = Called("count", NoKey,
                             IF count = None THEN RInt(0) ELSE RInt(Slice(Value(count), 1, 2)[1]),
                             Sent(q))
           /\ UNCHANGED <<regVars, dev, openVars>>

\* Receiver.register_new_device, as a function of the receiver's state, the
\* number and the transport's answer to the pairing-info request.
\* PairedDevice.__init__ asserts the receiver (its __bool__ is
\* `handle is not None`) and the number's range.
register_new_device(h, d, number, reply) ==
    IF DictGet(d, number) # None
    THEN [devices |-> d, ret |-> Raise("IndexError"), sent |-> <<>>, created |-> 0]
    ELSE IF h = None \/ ~(number > 0 /\ number <= MAX_PAIRED_DEVICES)
    THEN [devices |-> d, ret |-> Raise("AssertionError"), sent |-> <<>>, created |-> 0]
    ELSE LET w == wpid(PairedDevice(number), h, reply)
         IN IF TruthyStr(w.value)
            THEN [devices |-> DictSet(d, number, Some(w.dev)),
                  ret |-> RDev(w.dev), sent |-> w.sent, created |-> 1]
            ELSE [devices |-> DictSet(d, number, None),
                  ret |-> RNone, sent |-> w.sent, created |-> 1]

PairInfoReplies(number) == TransportReplies(REQ_PAIR_INFO, <<\H20 + number - 1>>)

RegisterNewDevice ==
    \E number \in Numbers : \E reply \in PairInfoReplies(number) :
        LET o == register_new_device(handle, devices, number, reply)
        IN /\ devices' = o.devices
           /\ last' = Called("register_new_device", IntKey(number), o.ret, o)
           /\ UNCHANGED <<handle, closeCalls, it, dev, openVars>>

\* Mutant of getitem: the cached device is not returned.
getitem_nocache(h, d, key, reply) ==
    IF h = None
    THEN [devices |-> d, ret |-> RNone, sent |-> <<>>, created |-> 0]
    ELSE IF key.type # "int"
    THEN [devices |-> d, ret |-> Raise("TypeError"), sent |-> <<>>, created |-> 0]
    ELSE IF key.val < 1 \/ key.val > MAX_PAIRED_DEVICES
    THEN [devices |-> d, ret |-> Raise("IndexError"), sent |-> <<>>, created |-> 0]
    ELSE register_new_device(h, d, key.val, reply)

\* Mutant of getitem: the upper end of the range is not checked.
getitem_norange(h, d, key, reply) ==
    IF h = None
    THEN [devices |-> d, ret |-> RNone, sent |-> <<>>, created |-> 0]
    ELSE IF DictGetKey(d, key) # None
    THEN [devices |-> d, ret |-> RDev(Value(DictGetKey(d, key))), sent |-> <<>>, created |-> 0]
    ELSE IF key.type # "int"
    THEN [devices |-> d, ret |-> Raise("TypeError"), sent |-> <<>>, created |-> 0]
    ELSE IF key.val < 1
    THEN [devices |-> d, ret |-> Raise("IndexError"), sent |-> <<>>, created |-> 0]
    ELSE register_new_device(h, d, key.val, reply)

\* Receiver.__getitem__
getitem(h, d, key, reply) ==
    IF h = None
    THEN [devices |-> d, ret |-> RNone, sent |-> <<>>, created |-> 0]
    ELSE IF DictGetKey(d, key) # None
    THEN [devices |-> d, ret |-> RDev(Value(DictGetKey(d, key))), sent |-> <<>>, created |-> 0]
    ELSE IF key.type # "int"
    THEN [devices |-> d, ret |-> Raise("TypeError"), sent |-> <<>>, created |-> 0]
    ELSE IF key.val < 1 \/ key.val > MAX_PAIRED_DEVICES
    THEN [devices |-> d, ret |-> Raise("IndexError"), sent |-> <<>>, created |-> 0]
    ELSE register_new_device(h, d, key.val, reply)

GetItem ==
    \E key \in Keys : \E reply \in PairInfoReplies(key.val) :
        LET o == getitem(handle, devices, key, reply)
        IN /\ devices' = o.devices
           /\ last' = Called("__getitem__", key, o.ret, o)
           /\ UNCHANGED <<handle, closeCalls, it, dev, openVars>>

\* Mutant of delitem: the guard tests `key not in self._devices`, so an
\* absent slot passes it.
delitem_membership(h, d, key, reply) ==
    IF ~(key.type \in {"int", "float"} /\ key.val \in DOMAIN d)
    THEN [devices |-> d, ret |-> Raise("IndexError"), sent |-> <<>>, created |-> 0]
    ELSE LET q == request(h, REQ_LOCK, <<3, key.val>>, reply)
         IN IF Truthy(q.reply)
            THEN [devices |-> DictDel(d, key.val), ret |-> RNone, sent |-> q.sent, created |-> 0]
            ELSE [devices |-> d, ret |-> Raise("IndexError"), sent |-> q.sent, created |-> 0]

\* Mutant of delitem: the slot is deleted before the reply is looked at.
delitem_always(h, d, key, reply) ==
    IF DictGetKey(d, key) = None
    THEN [devices |-> d, ret |-> Raise("IndexError"), sent |-> <<>>, created |-> 0]
    ELSE LET q == request(h, REQ_LOCK, <<3, key.val>>, reply)
         IN IF Truthy(q.reply)
            THEN [devices |-> DictDel(d, key.val), ret |-> RNone, sent |-> q.sent, created |-> 0]
            ELSE [devices |-> DictDel(d, key.val), ret |-> Raise("IndexError"),
                  sent |-> q.sent, created |-> 0]

\* Receiver.__delitem__
delitem(h, d, key, reply) ==
    IF DictGetKey(d, key) = None
    THEN [devices |-> d, ret |-> Raise("IndexError"), sent |-> <<>>, created |-> 0]
    ELSE LET q == request(h, REQ_LOCK, <<3, key.val>>, reply)
         IN IF Truthy(q.reply)
            THEN [devices |-> DictDel(d, key.val), ret |-> RNone, sent |-> q.sent, created |-> 0]
            ELSE [devices |-> d, ret |-> Raise("IndexError"), sent |-> q.sent, created |-> 0]

DelItem ==
    \E key \in Keys : \E reply \in TransportReplies(REQ_LOCK, <<3, key.val>>) :
        LET o == delitem(handle, devices, key, reply)
        IN /\ devices' = o.devices
           /\ last' = Called("__delitem__", key, o.ret, o)
           /\ UNCHANGED <<handle, closeCalls, it, dev, openVars>>

\* Mutant of iter_visit: every number goes through __getitem__, also one
\* that is in the dict.
iter_visit_always(h, d, number, reply) ==
    LET o == getitem(h, d, IntKey(number), reply)
    IN [devices |-> o.devices, dev |-> DictGet(o.devices, number),
        sent |-> o.sent, created |-> o.created]

\* One pass of the loop of Receiver.__iter__ for `number`: the device it
\* would yield (None: nothing is yielded for this number).
iter_visit(h, d, number, reply) ==
    IF number \in DOMAIN d
    THEN [devices |-> d, dev |-> d[number], sent |-> <<>>, created |-> 0]
    ELSE LET o == getitem(h, d, IntKey(number), reply)
         IN [devices |-> o.devices, dev |-> DictGet(o.devices, number),
             sent |-> o.sent, created |-> o.created]

\* One next() on the generator suspended before `number`: every outcome the
\* transport's answers allow.  pos is where the generator is suspended
\* afterwards (MAX_PAIRED_DEVICES + 1: exhausted).
RECURSIVE iter_next(_, _, _)
iter_next(h, d, number) ==
    IF number > MAX_PAIRED_DEVICES
    THEN {[devices |-> d, ret |-> Raise("StopIteration"), sent |-> <<>>, created |-> 0,
           pos |-> MAX_PAIRED_DEVICES + 1]}
    ELSE UNION {
           LET v == iter_visit(h, d, number, reply)
           IN IF v.dev # None
              THEN {[devices |-> v.devices, ret |-> RDev(Value(v.dev)), sent |-> v.sent,
                     created |-> v.created, pos |-> number + 1]}
              ELSE {[o EXCEPT !.sent = v.sent \o o.sent, !.created = v.created + o.created] :
                        o \in iter_next(h, v.devices, number + 1)}
           : reply \in IF number \in DOMAIN d \/ h = None THEN {None} ELSE PairInfoReplies(number)}

\* list(receiver): the generator run to exhaustion with nothing interleaved.
RECURSIVE iter_all(_, _, _)
iter_all(h, d, number) ==
    UNION {
      IF o.ret.kind = "StopIteration"
      THEN {[devices |-> o.devices, yielded |-> <<>>, sent |-> o.sent, created |-> o.created]}
      ELSE {[devices |-> r.devices, yielded |-> o.ret.val \o r.yielded,
             sent |-> o.sent \o r.sent, created |-> o.created + r.created] :
                r \in iter_all(h, o.devices, o.pos)}
      : o \in iter_next(h, d, number)}

Iterate ==
    \E o \in iter_all(handle, devices, 1) :
        /\ devices' = o.devices
        /\ last' = Called("__iter__", NoKey, [kind |-> "list", val |-> o.yielded], o)
        /\ UNCHANGED <<handle, closeCalls, it, dev, openVars>>

\* iter(receiver): a generator is created, suspended before number 1; no
\* code of __iter__ has run yet.
IterStart ==
    /\ it' = 1
    /\ last' = Called("iter", NoKey, RNone, Nothing)
    /\ UNCHANGED <<handle, devices, closeCalls, dev, openVars>>

\* next() on the generator: __iter__ runs from where it is suspended to its
\* next yield, or to its end.
IterNext ==
    /\ it > 0
    /\ \E o \in iter_next(handle, devices, it) :
          /\ devices' = o.devices
          /\ it' = o.pos
          /\ last' = Called("next", NoKey, o.ret, o)
    /\ UNCHANGED <<handle, closeCalls, dev, openVars>>

\* Receiver.__contains__: an int is looked up in the dict, anything else is
\* asked for its `number`, which only a PairedDevice has.
DevKey(n) == [type |-> "PairedDevice", val |-> n]
ContainsKeys == {IntKey(n) : n \in Numbers} \cup {DevKey(n) : n \in DeviceNumbers} \cup {StrKey}
contains(d, key) ==
    IF key.type = "int" THEN RBool(DictGet(d, key.val) # None)
    ELSE IF key.type = "PairedDevice" THEN RBool(DictGet(d, key.val) # None)
    ELSE Raise("AttributeError")

Contains ==
    \E key \in ContainsKeys :
        /\ last' = Called("__contains__", key, contains(devices, key), Nothing)
        /\ UNCHANGED <<regVars, dev, openVars>>

InitIdle ==
    /\ dev = PairedDevice(1)
    /\ paths = <<>>
    /\ idx = 0
    /\ exception = 0
    /\ opened = [kind |-> "none", path |-> 0]

Init == InitReceiver /\ InitIdle

Next ==
    \/ Close
    \/ Request
    \/ EnableNotifications
    \/ NotifyDevices
    \/ SetLock
    \/ Count
    \/ RegisterNewDevice
    \/ GetItem
    \/ DelItem
    \/ Iterate
    \/ Contains

Spec == Init /\ [][Next]_vars

\* The generator of __iter__ advanced one next() at a time, with removals
\* and close() in between; a new generator may be started at any time.
NextIter ==
    \/ IterStart
    \/ IterNext
    \/ DelItem
    \/ Close

SpecIter == Init /\ [][NextIter]_vars

(***************************************************************************)
(* Receiver.open                                                           *)
(*                                                                         *)
(* paths[i] is what _base.open_path does for the i-th path that            *)
(* _base.receivers() discovers: it returns a handle, returns a false       *)
(* value, raises OSError with errno EACCES, or raises another OSError.     *)
(* exception is the index of the path whose error the local variable       *)
(* `exception` holds, 0 for None.                                          *)
(***************************************************************************)
OpenOutcomes == {"handle", "falsy", "EACCES", "OSError"}
PathLists == UNION {[1 .. n -> OpenOutcomes] : n \in 0 .. MaxPaths}

Running == [kind |-> "running", path |-> 0]

InitOpen ==
    /\ paths \in PathLists
    /\ idx = 0
    /\ exception = 0
    /\ opened = Running
    /\ handle = None
    /\ devices = <<>>
    /\ closeCalls = 0
    /\ it = 0
    /\ last = Called("open", NoKey, RNone, Nothing)
    /\ dev = PairedDevice(1)

\* Mutant of OpenTry: a permission error is raised at once instead of kept.
OpenTry_raise ==
    /\ opened = Running
    /\ idx < Len(paths)
    /\ idx' = idx + 1
    /\ CASE paths[idx + 1] = "handle" ->
              /\ opened' = [kind |-> "Receiver", path |-> idx + 1]
              /\ handle' = Some(HandleValue)
              /\ exception' = 0
         [] paths[idx + 1] = "EACCES" ->
              /\ opened' = [kind |-> "raise", path |-> idx + 1]
              /\ exception' = idx + 1
              /\ UNCHANGED handle
         [] OTHER ->
              /\ exception' = 0
              /\ UNCHANGED <<opened, handle>>
    /\ UNCHANGED <<devices, closeCalls, it, last, dev, paths>>

\* One pass of the loop: `exception = None`, then the attempt on the next path.
OpenTry ==
    /\ opened = Running
    /\ idx < Len(paths)
    /\ idx' = idx + 1
    /\ CASE paths[idx + 1] = "handle" ->
              \* return Receiver(handle, rawdevice.path)
              /\ opened' = [kind |-> "Receiver", path |-> idx + 1]
              /\ handle' = Some(HandleValue)
              /\ exception' = 0
         [] paths[idx + 1] = "EACCES" ->
              /\ exception' = idx + 1
              /\ UNCHANGED <<opened, handle>>
         [] OTHER ->
              \* a false handle, or an OSError that is only logged
              /\ exception' = 0
              /\ UNCHANGED <<opened, handle>>
    /\ UNCHANGED <<devices, closeCalls, it, last, dev, paths>>

\* After the loop: raise the kept exception, or return None.
OpenEnd ==
    /\ opened = Running
    /\ idx = Len(paths)
    /\ opened' = IF exception # 0 THEN [kind |-> "raise", path |-> exception]
                 ELSE [kind |-> "None", path |-> 0]
    /\ UNCHANGED <<handle, devices, closeCalls, it, last, dev, paths, idx, exception>>

NextOpen == OpenTry \/ OpenEnd

SpecOpen == InitOpen /\ [][NextOpen]_vars

(***************************************************************************)
(* Properties of Receiver.open (specification SpecOpen).                   *)
(***************************************************************************)
Opens == {i \in DOMAIN paths : paths[i] = "handle"}
Denied == {i \in DOMAIN paths : paths[i] = "EACCES"}
Min(S) == CHOOSE i \in S : \A j \in S : i <= j
Max(S) == CHOOSE i \in S : \A j \in S : i >= j

\* C1: when open() has ended, no path opened and some path failed with
\* EACCES, open() has raised the error of the last path that failed with
\* EACCES.
C1_LastPermissionErrorRaised ==
    (opened # Running /\ Opens = {} /\ Denied # {})
        => opened = [kind |-> "raise", path |-> Max(Denied)]

\* C2: open() never tries a path after the first one that opens; when it
\* has ended and some path opens, it has returned the Receiver of the first
\* such path, having tried exactly the paths up to it in order, and raised
\* nothing; with no path at all it has returned None.
C2_FirstOpenedIsReturned ==
    /\ Opens # {} => idx <= Min(Opens)
    /\ (opened # Running /\ Opens # {})
         => /\ opened = [kind |-> "Receiver", path |-> Min(Opens)]
            /\ idx = Min(Opens)
            /\ handle # None
    /\ (opened # Running /\ paths = <<>>) => opened = [kind |-> "None", path |-> 0]
    /\ opened.kind = "Receiver" => opened.path \in Opens

C2_Witness ==
    /\ opened.kind = "Receiver"
    /\ opened.path = 2
    /\ paths[1] = "EACCES"
    /\ Len(paths) > 2

(***************************************************************************)
(* One PairedDevice and the receiver it refers to (specification SpecDev). *)
(* The device is read through its properties while the receiver may be     *)
(* closed under it.                                                        *)
(***************************************************************************)
DevNumbers == {3}

InitDev ==
    /\ handle = Some(HandleValue)
    /\ devices = <<>>
    /\ closeCalls = 0
    /\ it = 0
    /\ \E number \in DevNumbers : dev = PairedDevice(number)
    /\ last = Called("PairedDevice", NoKey, RNone, Nothing)
    /\ paths = <<>>
    /\ idx = 0
    /\ exception = 0
    /\ opened = [kind |-> "none", path |-> 0]

Read(op, ret, o) ==
    /\ dev' = o.dev
    /\ last' = Called(op, NoKey, ret, [sent |-> o.sent, created |-> 0])
    /\ UNCHANGED <<regVars, openVars>>

ROptStr(o) == IF o = None THEN RNone ELSE RStr(Value(o))
RTuple(t) == [kind |-> "tuple", val |-> t]

ReadProtocol ==
    \E reply \in PingReplies(handle) :
        LET o == protocol(dev, handle, reply) IN Read("protocol", RInt(o.value), o)

ReadWpid ==
    \E reply \in DevPairInfoReplies(dev.number) :
        LET o == wpid(dev, handle, reply) IN Read("wpid", ROptStr(o.value), o)

ReadPowerSwitchLocation ==
    \E reply \in PowerSwitchReplies(dev.number) :
        LET o == power_switch_location(dev, handle, reply)
        IN Read("power_switch_location", ROptStr(o.value), o)

ReadCodename ==
    \E reply \in CodenameReplies(dev.number) :
        LET o == codename(dev, handle, reply) IN Read("codename", ROptStr(o.value), o)

ReadFirmware ==
    \E pingReply \in PingReplies(handle), reply \in LayerReplies(handle, <<"firmware">>) :
        LET o == firmware(dev, handle, pingReply, reply) IN Read("firmware", RTuple(o.value), o)

ReadSerial ==
    \E reply \in LayerReplies(handle, "4F2A") :
        LET o == serial(dev, handle, reply) IN Read("serial", RStr(o.value), o)

ReadKeys ==
    \E reply \in LayerReplies(handle, <<"key">>) :
        LET o == keys(dev, handle, reply) IN Read("keys", RTuple(o.value), o)

ReadName ==
    \E reply \in CodenameReplies(dev.number), pingReply \in PingReplies(handle),
       nameReply \in LayerReplies(handle, "Feature Name"),
       reply2 \in CodenameReplies(dev.number) :
        LET o == name(dev, handle, reply, pingReply, nameReply, reply2)
        IN Read("name", RStr(o.value), o)

ReadKind ==
    \E pairReply \in DevPairInfoReplies(dev.number), reply \in CodenameReplies(dev.number),
       pingReply \in PingReplies(handle), kindReply \in LayerReplies(handle, "trackball") :
        LET o == kind(dev, handle, pairReply, reply, pingReply, kindReply)
        IN Read("kind", RStr(o.value), o)

\* PairedDevice.request and PairedDevice.ping called by the user.  A closed
\* handle gets no reply.
DeviceRequest ==
    \E reply \in IF handle # None THEN TransportReplies(REQ_NOTIFICATION_FLAGS, <<>>) ELSE {None} :
        LET o == device_request(dev, handle, REQ_NOTIFICATION_FLAGS, <<>>, reply)
        IN Read("request", ROpt(o.value), o)

DevicePing ==
    \E reply \in PingReplies(handle) :
        LET o == device_ping(dev, handle, reply) IN Read("ping", RBool(o.value), o)

NextDev ==
    \/ ReadProtocol
    \/ ReadWpid
    \/ ReadPowerSwitchLocation
    \/ ReadCodename
    \/ ReadFirmware
    \/ ReadSerial
    \/ ReadKeys
    \/ ReadName
    \/ ReadKind
    \/ DeviceRequest
    \/ DevicePing
    \/ Close

SpecDev == InitDev /\ [][NextDev]_vars

(***************************************************************************)
(* Properties of the PairedDevice fields (specification SpecDev).          *)
(***************************************************************************)
\* The property of each lazily resolved field and the attribute caching it.
FieldOf ==
    [protocol |-> "protocol_", wpid |-> "wpid_", power_switch_location |-> "power_switch_",
     codename |-> "codename_", serial |-> "serial_", firmware |-> "firmware_", keys |-> "keys_"]

\* The last collaborator a call asked gave no answer.
Unanswered(c) == c.sent # <<>> /\ ~c.sent[Len(c.sent)].answered

\* C10: for protocol, wpid, power_switch_location, codename, serial,
\* firmware and keys: a read of an unresolved field whose probe gets no
\* reply leaves the field unresolved (None), so that the next read probes
\* again.
C10_NoReplyLeavesFieldUnresolved ==
    [][\A f \in DOMAIN FieldOf :
         (last'.op = f /\ dev[FieldOf[f]] = None /\ Unanswered(last'))
         => dev'[FieldOf[f]] = None]_vars

\* The same for the fields other than keys, which the code does retry.
FieldsButKeysRetry ==
    [][\A f \in (DOMAIN FieldOf) \ {"keys"} :
         (last'.op = f /\ dev[FieldOf[f]] = None /\ Unanswered(last'))
         => dev'[FieldOf[f]] = None]_vars

(***************************************************************************)
(* Properties of the registry (specification Spec).  In an action formula  *)
(* last' is the call made by the step, the unprimed variables are the      *)
(* registry before it.                                                     *)
(***************************************************************************)
TypeOK ==
    /\ handle \in {None, Some(HandleValue)}
    /\ DOMAIN devices \subseteq DeviceNumbers
    /\ \A n \in DOMAIN devices : devices[n] = None \/ Value(devices[n]).number = n
    /\ closeCalls \in Nat

\* A closed registry holds no slot at all.
ClosedIsEmpty == handle = None => devices = <<>>

\* C3: register_new_device(n) raises IndexError whenever slot n is already
\* registered, live or absent, and then leaves the slot as it was and sends
\* no probe.
C3_RegisteredIsRejected ==
    [][\A n \in DeviceNumbers :
         (n \in DOMAIN devices /\ last'.op = "register_new_device" /\ last'.key = IntKey(n))
         => /\ last'.ret = Raise("IndexError")
            /\ devices' = devices
            /\ last'.sent = <<>>
            /\ last'.created = 0]_vars

\* C4: on an open registry, indexing a live slot n returns the PairedDevice
\* object already stored in slot n (none is constructed), sends nothing to
\* the transport and leaves the map as it was.
C4_LiveIndexIsCached ==
    [][\A n \in DeviceNumbers :
         (handle # None /\ Live(devices, n)
            /\ last'.op = "__getitem__" /\ last'.key = IntKey(n))
         => /\ last'.ret = RDev(Value(devices[n]))
            /\ last'.created = 0
            /\ last'.sent = <<>>
            /\ devices' = devices]_vars

C4_Witness ==
    /\ handle # None
    /\ last.op = "__getitem__"
    /\ ValidKey(last.key)
    /\ last.ret.kind = "PairedDevice"
    /\ last.created = 0
    /\ Live(devices, last.key.val)

\* C5: removal by a DeviceNumber n whose slot is not live (unresolved,
\* absent, or the registry is closed) raises IndexError, sends no request
\* and leaves the map as it was.
C5_RemoveNotLiveRejected ==
    [][\A n \in DeviceNumbers :
         (~Live(devices, n) /\ last'.op = "__delitem__" /\ last'.key = IntKey(n))
         => /\ last'.ret = Raise("IndexError")
            /\ last'.sent = <<>>
            /\ devices' = devices]_vars

C5_Witness ==
    /\ last.op = "__delitem__"
    /\ ValidKey(last.key)
    /\ last.ret = Raise("IndexError")
    /\ last.sent = <<>>
    /\ last.key.val \in DOMAIN devices
    /\ devices[last.key.val] = None

\* C6: removal by a DeviceNumber n whose slot is live sends exactly one
\* request, 0x80B2 with parameters (0x03, n), to the receiver; answered, the
\* slot is deleted and every other slot is as before; unanswered, the map is
\* as before and IndexError is raised.
C6_RemoveLive ==
    [][\A n \in DeviceNumbers :
         (Live(devices, n) /\ last'.op = "__delitem__" /\ last'.key = IntKey(n))
         => /\ Len(last'.sent) = 1
            /\ last'.sent[1].call = "_base.request"
            /\ last'.sent[1].handle = handle
            /\ handle # None
            /\ last'.sent[1].devnumber = RECEIVER_NUMBER
            /\ last'.sent[1].request_id = REQ_LOCK
            /\ last'.sent[1].params = <<3, n>>
            /\ IF last'.sent[1].answered
               THEN /\ last'.ret = RNone
                    /\ n \notin DOMAIN devices'
                    /\ devices' = DictDel(devices, n)
               ELSE /\ last'.ret = Raise("IndexError")
                    /\ devices' = devices]_vars

C6_Witness ==
    /\ last.op = "__delitem__"
    /\ ValidKey(last.key)
    /\ last.ret = RNone
    /\ Len(last.sent) = 1
    /\ last.sent[1].answered
    /\ last.key.val \notin DOMAIN devices
    /\ LiveSet(devices) # {}

\* C7: on a closed registry no call sends anything to the transport;
\* count() returns 0 and request() returns None, neither raises.
C7_ClosedSendsNothing ==
    [][handle = None
         => /\ last'.sent = <<>>
            /\ closeCalls' = closeCalls
            /\ (last'.op = "count" => last'.ret = RInt(0))
            /\ (last'.op = "request" => last'.ret = RNone)]_vars

C7_Witness ==
    /\ handle = None
    /\ last.op = "count"
    /\ last.ret = RInt(0)
    /\ last.sent = <<>>

\* C8: _base.close is invoked at most once; the first close() sets the
\* handle to None and empties the map; every later close() changes nothing,
\* invokes nothing on the transport and returns a false value (None).
RetFalsy(r) == r = RNone \/ r = RBool(FALSE) \/ r = RInt(0)

C8_CloseIdempotent ==
    /\ [](closeCalls <= 1)
    /\ [][last'.op = "close"
            => /\ handle' = None
               /\ devices' = <<>>
               /\ last'.sent = <<>>
               /\ IF handle # None
                  THEN closeCalls' = closeCalls + 1
                  ELSE /\ closeCalls' = closeCalls
                       /\ devices' = devices
                       /\ RetFalsy(last'.ret)]_vars

C8_Witness ==
    /\ handle = None
    /\ closeCalls = 1
    /\ last.op = "close"
    /\ last.ret = RNone

\* C9 as claimed: indexing with a key that is not a valid DeviceNumber
\* raises IndexError or TypeError in every state of the registry, closed
\* ones included, and never changes the map.
C9_InvalidKeyAlwaysRejected ==
    [][\A key \in Keys :
         (~ValidKey(key) /\ last'.op = "__getitem__" /\ last'.key = key)
         => /\ last'.ret.kind \in {"IndexError", "TypeError"}
            /\ devices' = devices]_vars

\* C9 as amended: indexing with a key that is not a valid DeviceNumber never
\* changes the map, constructs no device and sends nothing.  On a closed
\* registry it returns None.  On an open one it raises TypeError for a
\* non-int key and IndexError for an int outside 1..6, except that a key
\* equal to the number of a live slot (1.0 == 1) returns that slot's device.
C9_InvalidKeyRejectedWhenOpen ==
    [][\A key \in Keys :
         (~ValidKey(key) /\ last'.op = "__getitem__" /\ last'.key = key)
         => /\ devices' = devices
            /\ last'.sent = <<>>
            /\ last'.created = 0
            /\ last'.ret = IF handle = None THEN RNone
                           ELSE IF key.type = "float" /\ Live(devices, key.val)
                                THEN RDev(Value(devices[key.val]))
                           ELSE IF key.type # "int" THEN Raise("TypeError")
                           ELSE Raise("IndexError")]_vars

C9_Witness ==
    /\ handle # None
    /\ last.op = "__getitem__"
    /\ last.key = IntKey(MAX_PAIRED_DEVICES + 1)
    /\ last.ret = Raise("IndexError")


(***************************************************************************)
(* Properties of the PairedDevice fields (SpecDev)                         *)
(***************************************************************************)
\* Property name -> attribute, and the empty value of the property's type.
AttrOf ==
    [protocol |-> "protocol_", wpid |-> "wpid_", power_switch_location |-> "power_switch_",
     codename |-> "codename_", name |-> "name_", kind |-> "kind_", serial |-> "serial_",
     firmware |-> "firmware_", keys |-> "keys_"]
EmptyOf ==
    [protocol |-> 0, wpid |-> "", power_switch_location |-> "", codename |-> "", name |-> "",
     kind |-> "", serial |-> "", firmware |-> <<>>, keys |-> <<>>]
NonEmpty(d, f) == d[AttrOf[f]] # None /\ Value(d[AttrOf[f]]) # EmptyOf[f]

\* The positions in a call's log of the calls of one collaborator, and of
\* the pairing-info requests of one variant (\H20, \H30, \H40).
CallsOf(c, call) == {i \in DOMAIN c.sent : c.sent[i].call = call}
PairInfoCalls(c, variant) ==
    {i \in DOMAIN c.sent : /\ c.sent[i].call = "_base.request"
                           /\ c.sent[i].request_id = REQ_PAIR_INFO
                           /\ c.sent[i].params = <<variant + dev.number - 1>>}

\* C11: a read of a field that already holds a non-empty value sends no
\* request to the transport, asks for no pairing information and calls no
\* protocol layer; the field keeps its value.
C11_ResolvedFieldIsNotQueried ==
    [][\A f \in DOMAIN AttrOf :
         (last'.op = f /\ NonEmpty(dev, f))
         => last'.sent = <<>> /\ dev'[AttrOf[f]] = dev[AttrOf[f]]]_vars

\* A read of the resolved protocol version that asked nobody.
C11_Witness ==
    /\ last.op = "protocol" /\ last.ret = RInt(20)
    /\ last.sent = <<>>

\* The codename as the first lookup of a read of `name` finds it: the cached
\* one, or the one the read's first pairing-info request was answered with.
FirstCodename(d, d2, c) ==
    IF d.codename_ # None THEN d.codename_
    ELSE IF 1 \in PairInfoCalls(c, \H40) /\ c.sent[1].answered THEN d2.codename_
    ELSE None

\* C12 as stated: whenever the device's codename is in the device table, a
\* read of the name returns the table's name and the feature layer is not
\* asked.
C12_TableNameWins ==
    [][(last'.op = "name" /\ DEVICES(dev.codename_) # None)
       => /\ last'.ret = RStr(Value(DEVICES(dev.codename_)).name)
          /\ CallsOf(last', "_hidpp20.get_name") = {}]_vars

\* C12, amended: on a read that finds the name unresolved, if the codename
\* (as the read's first lookup finds it) is in the device table, the table's
\* name is returned and neither the presence probe nor the feature layer's
\* name query is called; the name query is called only when that codename
\* is not in the table and the protocol version is at least 2.0; a read that
\* ends with no name returns the codename, or "?" without one.
C12_NameResolution ==
    [][(last'.op = "name" /\ dev.name_ = None)
       => LET cn == FirstCodename(dev, dev', last')
          IN /\ DEVICES(cn) # None
                => /\ last'.ret = RStr(Value(DEVICES(cn)).name)
                   /\ CallsOf(last', "_hidpp20.get_name") = {}
                   /\ CallsOf(last', "_base.ping") = {}
             /\ CallsOf(last', "_hidpp20.get_name") # {}
                => DEVICES(cn) = None /\ Or(dev'.protocol_, 0, 0) >= 20
             /\ TruthyStr(dev'.name_) => last'.ret = RStr(Value(dev'.name_))
             /\ ~TruthyStr(dev'.name_) => last'.ret = RStr(Or(dev'.codename_, "", "?"))]_vars

\* A device of protocol version 2.0 whose name was just taken from the table.
C12_Witness ==
    /\ last.op = "name" /\ last.ret = RStr("Wireless Mouse M510")
    /\ dev.protocol_ = Some(20)
    /\ PairInfoCalls(last, \H40) # {}
    /\ CallsOf(last, "_hidpp20.get_name") = {}

\* The sources of the kind, in the order they are consulted.
KindRank(q) ==
    CASE q.call = "_base.request" /\ q.params = <<\H20 + dev.number - 1>> -> 1
      [] q.call = "_base.request" /\ q.params = <<\H40 + dev.number - 1>> -> 2
      [] q.call = "_base.ping" -> 3
      [] q.call = "_hidpp20.get_kind" -> 4
      [] OTHER -> 0

\* C13: a read that finds the kind unresolved asks the pairing information
\* first; when that yields a kind nothing else is asked; the codename is
\* looked up only when it yielded nothing, the presence probe only when also
\* the codename is not in the device table, the feature layer only when also
\* the protocol version is at least 2.0; with no kind found "?" is returned.
C13_KindSourcesInOrder ==
    [][(last'.op = "kind" /\ dev.kind_ = None)
       => LET s == last'.sent
              yields == 1 \in PairInfoCalls(last', \H20) /\ s[1].answered
          IN /\ handle # None => 1 \in PairInfoCalls(last', \H20)
             /\ \A i \in DOMAIN s : KindRank(s[i]) > 0
             /\ \A i, j \in DOMAIN s : i < j => KindRank(s[i]) < KindRank(s[j])
             /\ yields => Len(s) = 1 /\ dev'.kind_ # None
             /\ PairInfoCalls(last', \H40) # {} => ~yields
             /\ CallsOf(last', "_base.ping") # {}
                => ~yields /\ DEVICES(dev'.codename_) = None
             /\ CallsOf(last', "_hidpp20.get_kind") # {}
                => ~yields /\ DEVICES(dev'.codename_) = None /\ Or(dev'.protocol_, 0, 0) >= 20
             /\ (~yields /\ DEVICES(dev'.codename_) # None)
                => last'.ret = RStr(Value(DEVICES(dev'.codename_)).kind)
             /\ last'.ret = RStr(Or(dev'.kind_, "", "?"))]_vars

\* The pairing information gave the kind, and it was the only request.
C13_Witness ==
    /\ last.op = "kind" /\ last.ret = RStr("mouse")
    /\ PairInfoCalls(last, \H20) = {1} /\ last.sent[1].answered
    /\ Len(last.sent) = 1

\* C14: on a fresh device, a read of wpid or of kind whose pairing-info
\* request (\H83B5, \H20 + number - 1) is answered sends that one request and
\* fills both wpid and kind; a read of wpid or of kind that finds both
\* filled sends nothing.
C14_OnePairInfoRequest ==
    [][last'.op \in {"wpid", "kind"}
       => /\ (dev = PairedDevice(dev.number) /\ last'.sent # <<>> /\ last'.sent[1].answered)
             => /\ Len(last'.sent) = 1 /\ PairInfoCalls(last', \H20) = {1}
                /\ dev'.wpid_ = Some("1234")
                /\ dev'.kind_ \in {Some("mouse"), Some("keyboard")}
          /\ (dev.wpid_ # None /\ dev.kind_ # None)
             => last'.sent = <<>> /\ dev' = dev]_vars

\* The second of the two reads: both fields filled by one pairing-info
\* answer (no codename was ever looked up), and the read sent nothing.
C14_Witness ==
    /\ last.op \in {"wpid", "kind"} /\ last.sent = <<>>
    /\ dev.wpid_ = Some("1234") /\ dev.kind_ = Some("mouse")
    /\ dev.codename_ = None /\ dev.name_ = None /\ dev.protocol_ = None

\* C15: a read that finds the firmware unresolved calls exactly the
\* version-2 query when the protocol version is at least 2.0, exactly the
\* legacy query when it is at least 1.0 and below 2.0, and neither when it is
\* 0, returning the empty tuple.
C15_FirmwareRouting ==
    [][(last'.op = "firmware" /\ dev.firmware_ = None)
       => LET p == Or(dev'.protocol_, 0, 0)
              v2 == CallsOf(last', "_hidpp20.get_firmware")
              v1 == CallsOf(last', "_hidpp10.get_firmware")
          IN /\ p >= 20 => Cardinality(v2) = 1 /\ v1 = {}
             /\ (p >= 10 /\ p < 20) => Cardinality(v1) = 1 /\ v2 = {}
             /\ p = 0 => v1 = {} /\ v2 = {} /\ last'.ret = RTuple(<<>>)]_vars

\* A device of protocol version 1.0 whose firmware the legacy query gave.
C15_Witness ==
    /\ last.op = "firmware" /\ dev.protocol_ = Some(10)
    /\ CallsOf(last, "_hidpp10.get_firmware") # {}
    /\ last.ret = RTuple(<<"firmware">>)


\* C18: request, ping and the resolution of the protocol version of a device
\* never give the transport (_base.request, _base.ping) the handle of a
\* closed receiver (None).
C18_ClosedHandleNotGivenToTransport ==
    last.op \in {"request", "ping", "protocol"}
    => \A i \in DOMAIN last.sent :
          last.sent[i].call \in {"_base.request", "_base.ping"}
          => last.sent[i].handle # None

\* C19: a field that holds a non-empty value keeps it, whichever attribute
\* of the device is read.
C19_ResolvedFieldKeepsItsValue ==
    [][\A f \in DOMAIN AttrOf :
         NonEmpty(dev, f) => dev'[AttrOf[f]] = dev[AttrOf[f]]]_vars

\* A read of an attribute leaves the resolved fields other than name and
\* kind as they are.
FieldsButNameAndKindAreKept ==
    [][\A f \in DOMAIN AttrOf \ {"name", "kind"} :
         NonEmpty(dev, f) => dev'[AttrOf[f]] = dev[AttrOf[f]]]_vars


(***************************************************************************)
(* Properties of iteration, of the slots and of a closed registry          *)
(***************************************************************************)
\* The pairing-info requests (variant A) for slot n in a call's log.
ProbesFor(c, n) ==
    {i \in DOMAIN c.sent : /\ c.sent[i].request_id = REQ_PAIR_INFO
                           /\ c.sent[i].params = <<\H20 + n - 1>>}

SlotState(d, n) ==
    IF n \notin DOMAIN d THEN "unresolved" ELSE IF d[n] = None THEN "absent" ELSE "live"

\* C17: on an open registry a slot only goes from unresolved to absent, from
\* unresolved to live, or from live to removed (unresolved again); an absent
\* slot stays absent and is not probed by indexing, iteration or
\* register_new_device.
C17_AbsentIsTerminal ==
    [][(handle # None /\ handle' # None)
       => \A n \in DeviceNumbers :
             /\ SlotState(devices', n) # SlotState(devices, n)
                => <<SlotState(devices, n), SlotState(devices', n)>>
                      \in {<<"unresolved", "absent">>, <<"unresolved", "live">>,
                           <<"live", "unresolved">>}
             /\ (SlotState(devices, n) = "absent"
                   /\ last'.op \in {"__getitem__", "__iter__", "register_new_device"})
                => SlotState(devices', n) = "absent" /\ ProbesFor(last', n) = {}]_vars

\* Iteration alone passes over an absent slot: it neither probes it nor
\* changes it.
IterationKeepsAbsent ==
    [][\A n \in DeviceNumbers :
         (SlotState(devices, n) = "absent" /\ last'.op = "__iter__")
         => SlotState(devices', n) = "absent" /\ ProbesFor(last', n) = {}]_vars

\* C20: a closed registry stays closed and has no live slot; the membership
\* test on it is False for every device number and every PairedDevice.
C20_ClosedHasNoLiveDevice ==
    [][/\ handle = None => handle' = None
       /\ handle' = None
          => /\ LiveSet(devices') = {}
             /\ (last'.op = "__contains__" /\ last'.key.type \in {"int", "PairedDevice"})
                => last'.ret = RBool(FALSE)]_vars

\* The membership test of a PairedDevice on a closed registry gave False.
C20_Witness ==
    /\ handle = None /\ closeCalls = 1
    /\ last.op = "__contains__" /\ last.key = DevKey(1)
    /\ last.ret = RBool(FALSE)

====
